---------------------------- MODULE Spec2Model ----------------------------
(***************************************************************************)
(* A model of tf_module_updater.py: the source locator, the constraint     *)
(* resolver, the declaration scanner, the registry client and the          *)
(* report/update driver, with the file system, the registry and the clock  *)
(* as the environment.                                                      *)
(*                                                                          *)
(* Strings are modelled by their structure.                                 *)
(*   - A module source is the sequence of its '/'-separated segments, and  *)
(*     a segment is the sequence of its '.'-separated labels, so that      *)
(*     "example.com/org/mod/aws" is                                         *)
(*     << <<"example","com">>, <<"org">>, <<"mod">>, <<"aws">> >> and a   *)
(*     segment contains a dot exactly when it has two labels or more.      *)
(*   - A version is the tuple of its numeric components, <<major, minor>>. *)
(*   - A constraint string is the sequence of its comma-separated clauses, *)
(*     each an operator (the sequence of its characters) and a version.    *)
(*     The empty string is << >>, and a plain version string such as "1.9" *)
(*     is the single clause with the empty operator.  Every string the     *)
(*     driver compares (latest, latest matching, current) is of this kind. *)
(***************************************************************************)
EXTENDS Integers, Sequences, FiniteSets, TLC

VARIABLES
    \* command line and environment
    args,               \* [all, update, use_token]: the parsed flags
    path_ok,            \* os.path.isdir(args.path)
    cred_ok,            \* the credentials file is present and well formed
    registry,           \* the set of versions the registry publishes
    fs,                 \* file path -> content of the scanned tree
    backups,            \* backup path -> [content, written]
    now,                \* the last reading of the clock, in seconds
    faults,             \* failures of the network and the disk so far
    \* main
    pc, run, token, modules, i,
    versions, latest_version, latest_matching, current_version,
    update_possible, rows, request, answer,
    \* update_module_version
    upd,
    \* what the runs did, for the statements about two runs
    applied, prevApplied, updFailed, prevClean,
    \* parse_module_source and find_latest_matching_version on their own
    source, module_info, r_versions, r_constraint, r_result

driverVars ==
    << args, path_ok, cred_ok, registry, fs, backups, now, faults, pc, run, token,
       modules, i, versions, latest_version, latest_matching,
       current_version, update_possible, rows, request, answer, upd,
       applied, prevApplied, updFailed, prevClean >>

locatorVars == << source, module_info >>

resolverVars == << r_versions, r_constraint, r_result >>

vars == << driverVars, locatorVars, resolverVars >>

----------------------------------------------------------------------------
(* Bounds *)

MaxSegs == 5        \* segments of a source string (locator)
MaxMajor == 2       \* versions 1.0 .. MaxMajor.MaxMinor (resolver)
MaxMinor == 1
MaxLen == 3         \* length of a version list (resolver)
MaxClauses == 2     \* clauses of a constraint (resolver)
MaxRuns == 2        \* consecutive runs of the program over the same tree
MaxFaults == 1      \* network and disk failures in one behaviour

----------------------------------------------------------------------------
(* Strings *)

EmptyStr == << >>

OpNone == << >>
OpEq == << "=" >>
OpNe == << "!", "=" >>
OpGe == << ">", "=" >>
OpLt == << "<" >>
OpPess == << "~", ">" >>
OpEqEq == << "=", "=" >>

Clause(op, v) == [op |-> op, ver |-> v]

\* The string of a version: "1.9".
Str(v) == << Clause(OpNone, v) >>

\* str.startswith('=') of a constraint string.
StartsWithEq(c) == c # EmptyStr /\ c[1].op # << >> /\ c[1].op[1] = "="

\* str.replace('=', '').strip(): every '=' character of the string goes.
RemoveEqChars(chars) == SelectSeq(chars, LAMBDA ch : ch # "=")

ReplaceEq(c) == [k \in 1..Len(c) |-> Clause(RemoveEqChars(c[k].op), c[k].ver)]

\* version.parse order: numeric, component by component.
VLess(a, b) == a[1] < b[1] \/ (a[1] = b[1] /\ a[2] < b[2])

VLeq(a, b) == a = b \/ VLess(a, b)

----------------------------------------------------------------------------
(* Source Locator: parse_module_source *)

PublicHost == << "registry", "terraform", "io" >>

HasDot(segment) == Len(segment) >= 2

None == [registry |-> "none"]

\* parse_module_source has not been applied yet.
Unparsed == [registry |-> "pending"]

parse_module_source(src) ==
    IF Len(src) >= 4 /\ HasDot(src[1])
    THEN [registry |-> "private", hostname |-> src[1], namespace |-> src[2],
          module |-> src[3], provider |-> src[4]]
    ELSE IF Len(src) >= 3
    THEN [registry |-> "public", hostname |-> PublicHost, namespace |-> src[1],
          module |-> src[2], provider |-> src[3]]
    ELSE None

----------------------------------------------------------------------------
(* Constraint Resolver: find_latest_matching_version *)

\* The operators packaging's Specifier accepts; any other clause makes
\* SpecifierSet(constraint) raise InvalidSpecifier.
SpecifierOps ==
    { << "~", "=" >>, << "=", "=" >>, << "!", "=" >>, << "<", "=" >>,
      << ">", "=" >>, << "<" >>, << ">" >>, << "=", "=", "=" >> }

SpecifierSetValid(c) == \A k \in 1..Len(c) : c[k].op \in SpecifierOps

\* Specifier.contains for one clause.
SpecifierContains(cl, v) ==
    CASE cl.op = << ">", "=" >> -> VLeq(cl.ver, v)
      [] cl.op = << "<", "=" >> -> VLeq(v, cl.ver)
      [] cl.op = << ">" >> -> VLess(cl.ver, v)
      [] cl.op = << "<" >> -> VLess(v, cl.ver)
      [] cl.op = << "!", "=" >> -> v # cl.ver
      [] cl.op = << "=", "=" >> -> v = cl.ver
      [] cl.op = << "=", "=", "=" >> -> v = cl.ver
      [] cl.op = << "~", "=" >> -> v[1] = cl.ver[1] /\ VLeq(cl.ver, v)
      [] OTHER -> FALSE

\* v in spec: every specifier of the set contains v.
InSpec(c, v) == \A k \in 1..Len(c) : SpecifierContains(c[k], v)

RECURSIVE MaxByVersion(_)
\* max(seq, key=version.parse): the first of the greatest elements.
MaxByVersion(seq) ==
    IF Len(seq) = 1 THEN seq[1]
    ELSE LET m == MaxByVersion(Tail(seq))
         IN IF VLess(seq[1], m) THEN m ELSE seq[1]

find_latest_matching_version(vs, constraint) ==
    IF ~SpecifierSetValid(constraint)
    THEN EmptyStr                       \* except Exception: return ""
    ELSE LET matching_versions == SelectSeq(vs, LAMBDA v : InSpec(constraint, v))
         IN IF matching_versions # << >>
            THEN Str(MaxByVersion(matching_versions))
            ELSE EmptyStr


----------------------------------------------------------------------------
(* Declaration Scanner: scan_terraform_modules *)

\* os.walk order of the .tf files under the scan root.
WalkOrder == << "main.tf", "vpc.tf" >>

\* A file's content: whether hcl2.load parses it, and its module blocks
\* [name, source, version] in order.  An empty file parses to no block.
Content(bs) == [parsable |-> TRUE, blocks |-> bs]

EmptyFile == Content(<< >>)

Unparsable == [parsable |-> FALSE, blocks |-> << >>]

RECURSIVE ScanBlocks(_, _)
ScanBlocks(file_path, blocks) ==
    IF blocks = << >> THEN << >>
    ELSE LET b == Head(blocks)
             info == parse_module_source(b.source)
         IN (IF info.registry # "none"
             THEN << [name |-> b.name, source |-> b.source,
                      constraint |-> b.version, file_path |-> file_path,
                      module_info |-> info] >>
             ELSE << >>) \o ScanBlocks(file_path, Tail(blocks))

RECURSIVE ScanFiles(_, _)
ScanFiles(files, paths) ==
    IF paths = << >> THEN << >>
    ELSE (IF Head(paths) \in DOMAIN files /\ files[Head(paths)].parsable
          THEN ScanBlocks(Head(paths), files[Head(paths)].blocks)
          ELSE << >>) \o ScanFiles(files, Tail(paths))

scan_terraform_modules(files) == ScanFiles(files, WalkOrder)

----------------------------------------------------------------------------
(* Registry Client: get_modules_path, get_module_versions *)

NoToken == "None"

\* What get_modules_path(hostname) returns: the modules.v1 path the host
\* announces, or the default path.
get_modules_path(hostname) == << "modules_path", hostname >>

PublicModulesPath == "/v1/modules"

\* The request get_module_versions sends: url (host, base path, module) and
\* the Authorization header.
VersionsRequest(info, tok) ==
    IF info.registry = "private" /\ tok # NoToken
    THEN [host |-> info.hostname, base |-> get_modules_path(info.hostname),
          module |-> << info.namespace, info.module, info.provider >>,
          auth |-> tok]
    ELSE [host |-> PublicHost, base |-> << PublicModulesPath >>,
          module |-> << info.namespace, info.module, info.provider >>,
          auth |-> NoToken]

RECURSIVE InsertDesc(_, _)
InsertDesc(v, seq) ==
    IF seq = << >> THEN << v >>
    ELSE IF VLess(Head(seq), v) THEN << v >> \o seq
    ELSE << Head(seq) >> \o InsertDesc(v, Tail(seq))

RECURSIVE SortDesc(_)
\* sorted(versions, key=version.parse, reverse=True)
SortDesc(seq) ==
    IF seq = << >> THEN << >> ELSE InsertDesc(Head(seq), SortDesc(Tail(seq)))

\* The orders in which a response can list the published versions.
Listings(S) ==
    { s \in [1..Cardinality(S) -> S] :
        \A j, k \in 1..Cardinality(S) : j # k => s[j] # s[k] }

----------------------------------------------------------------------------
(* Report/Update Driver: main, update_module_version *)

NoRequest == [host |-> << >>, base |-> << >>, module |-> << >>, auth |-> NoToken]

NoPath == [file |-> "", ts |-> 0]

NoUpdate ==
    [file_path |-> "", module_name |-> "", new_version |-> EmptyStr,
     backup_path |-> NoPath, orig |-> EmptyFile, content |-> EmptyFile,
     config |-> << >>, opened |-> FALSE]

LatestVersion(vs) == IF vs # << >> THEN Str(vs[1]) ELSE EmptyStr

LatestMatching(vs, constraint) ==
    IF constraint # EmptyStr
    THEN find_latest_matching_version(vs, constraint)
    ELSE EmptyStr

CurrentVersion(constraint) ==
    IF StartsWithEq(constraint) THEN ReplaceEq(constraint) ELSE constraint

\* The condition without its test of an empty version list.
UpdatePossibleUnguarded(latest, matching, current) ==
    \/ current = EmptyStr
    \/ /\ latest # current
       /\ (matching = EmptyStr \/ matching # current)

UpdatePossible(latest, matching, current) ==
    /\ latest # EmptyStr
    /\ \/ current = EmptyStr
       \/ /\ latest # current
          /\ (matching = EmptyStr \/ matching # current)

\* The choice with the latest version always preferred.
NewVersionLatestFirst(matching, latest) == latest

NewVersion(matching, latest) == IF matching # EmptyStr THEN matching ELSE latest

\* The loop without its test of the module's name.
SetVersionEveryModule(config, module_name, new_version) ==
    [k \in 1..Len(config) |-> [config[k] EXCEPT !.version = new_version]]

\* for module in config.get('module', []): if module_name in module: ...
SetVersion(config, module_name, new_version) ==
    [k \in 1..Len(config) |->
        IF config[k].name = module_name
        THEN [config[k] EXCEPT !.version = new_version]
        ELSE config[k]]

Put(f, key, val) ==
    [k \in DOMAIN f \cup {key} |-> IF k = key THEN val ELSE f[k]]

----------------------------------------------------------------------------
(* The inputs of the driver *)

\* The module's releases, oldest first; the registry publishes the first
\* few of them.
Releases == << << 1, 0 >>, << 1, 9 >>, << 2, 0 >> >>

Published(n) == { Releases[k] : k \in 1..n }

SrcPublic == << << "hashicorp" >>, << "consul" >>, << "aws" >> >>

SrcPrivate == << << "example", "com" >>, << "org" >>, << "mod" >>, << "aws" >> >>

\* "./modules": two segments, the first of them "."
SrcLocal == << << "", "" >>, << "modules" >> >>

DriverSources == { SrcPublic, SrcPrivate, SrcLocal }

DriverConstraints ==
    { EmptyStr,                                                 \* no version
      Str(<< 1, 9 >>),                                          \* "1.9"
      << Clause(OpEq, << 1, 9 >>) >>,                           \* "= 1.9"
      << Clause(OpGe, << 1, 0 >>), Clause(OpLt, << 2, 0 >>) >>, \* ">= 1.0, < 2.0"
      Str(<< 2, 0 >>),                                          \* "2.0"
      << Clause(OpEqEq, << 1, 9 >>) >> }                        \* "== 1.9"

Blocks(name, sources, constraints) ==
    [name : {name}, source : sources, version : constraints]

RangeConstraint == << Clause(OpGe, << 1, 0 >>), Clause(OpLt, << 2, 0 >>) >>

\* The trees scanned: main.tf alone, unparsable, empty, with one module or
\* with two, and main.tf and vpc.tf with one module each.
Trees ==
    { [f \in {"main.tf"} |-> Unparsable], [f \in {"main.tf"} |-> EmptyFile] }
    \cup { [f \in {"main.tf"} |-> Content(<< a >>)] :
             a \in Blocks("a", DriverSources, DriverConstraints) }
    \cup { [f \in {"main.tf"} |-> Content(<< a, b >>)] :
             a \in Blocks("a", {SrcPublic}, DriverConstraints),
             b \in Blocks("b", {SrcPrivate}, {EmptyStr, RangeConstraint}) }
    \cup { [f \in {"main.tf", "vpc.tf"} |->
              IF f = "main.tf" THEN Content(<< a >>) ELSE Content(<< b >>)] :
             a \in Blocks("a", {SrcPublic}, {EmptyStr, RangeConstraint}),
             b \in Blocks("b", {SrcPrivate}, {EmptyStr}) }

----------------------------------------------------------------------------
(* The driver's steps *)

LocatorIdle == source = << >> /\ module_info = Unparsed

Unresolved == [done |-> FALSE, value |-> EmptyStr]

ResolverIdle ==
    r_versions = << >> /\ r_constraint = EmptyStr /\ r_result = Unresolved

\* main before its first statement.
MainAtStart ==
    /\ backups = << >>
    /\ now = 0
    /\ faults = 0
    /\ run = 1
    /\ token = NoToken
    /\ modules = << >>
    /\ i = 0
    /\ versions = << >>
    /\ latest_version = EmptyStr
    /\ latest_matching = EmptyStr
    /\ current_version = EmptyStr
    /\ update_possible = FALSE
    /\ rows = << >>
    /\ request = NoRequest
    /\ answer = ""
    /\ upd = NoUpdate
    /\ applied = {}
    /\ prevApplied = {}
    /\ updFailed = FALSE
    /\ prevClean = FALSE

Init ==
    /\ args \in [all : BOOLEAN, update : BOOLEAN, use_token : BOOLEAN]
    /\ path_ok \in BOOLEAN
    /\ cred_ok \in BOOLEAN
    /\ (args.use_token \/ cred_ok)      \* the file is read only with --use-token
    /\ registry \in { Published(n) : n \in 0..Len(Releases) }
    /\ fs \in Trees
    /\ pc = "start"
    /\ MainAtStart
    /\ LocatorIdle
    /\ ResolverIdle

envVars == << args, path_ok, cred_ok, registry >>

\* One more failure of the network or the disk.
Fault == faults < MaxFaults /\ faults' = faults + 1

localVars ==
    << versions, latest_version, latest_matching, current_version,
       update_possible >>

histVars == << applied, prevApplied, updFailed, prevClean >>

pureVars == << locatorVars, resolverVars >>

\* main, lines 167-173: the scan root and the credential are checked; either
\* failure is exit(1).
Startup ==
    /\ pc = "start"
    /\ IF ~path_ok THEN pc' = "exit1" /\ token' = token
       ELSE IF args.use_token /\ ~cred_ok THEN pc' = "exit1" /\ token' = token
       ELSE pc' = "scan" /\ token' = IF args.use_token THEN "token" ELSE NoToken
    /\ UNCHANGED << envVars, faults, fs, backups, now, run, modules, i, localVars,
                    rows, request, answer, upd, histVars, pureVars >>

\* main, lines 175-183.
Scan ==
    /\ pc = "scan"
    /\ modules' = scan_terraform_modules(fs)
    /\ IF modules' = << >> THEN pc' = "done" /\ i' = 0
       ELSE pc' = "fetch" /\ i' = 1
    /\ UNCHANGED << envVars, faults, fs, backups, now, run, token, localVars, rows,
                    request, answer, upd, histVars, pureVars >>

\* get_module_versions, lines 61-88, called at line 189 for modules[i].
GetModuleVersions ==
    /\ pc = "fetch"
    /\ request' = VersionsRequest(modules[i].module_info, token)
    /\ \/ \* the response lists the published versions in some order
          /\ \E listing \in Listings(registry) : versions' = SortDesc(listing)
          /\ pc' = "report"
          /\ faults' = faults
       \/ \* HTTPError (404 or another status) or RequestException: a
          \* message is printed and [] is returned
          /\ versions' = << >>
          /\ pc' = "report"
          /\ Fault
       \/ \* a response without the expected shape ("modules": [], a version
          \* object without "version"): IndexError, KeyError; or a version
          \* string version.parse rejects: InvalidVersion.  None is caught.
          /\ versions' = versions
          /\ pc' = "traceback"
          /\ faults' = faults
    /\ UNCHANGED << envVars, fs, backups, now, run, token, modules, i,
                    latest_version, latest_matching, current_version,
                    update_possible, rows, answer, upd, histVars, pureVars >>

\* The loop goes to the next declaration, or ends.
Advance == IF i < Len(modules) THEN pc' = "fetch" /\ i' = i + 1
           ELSE pc' = "done" /\ i' = i

BeginUpdate(new_version) ==
    [NoUpdate EXCEPT !.file_path = modules[i].file_path,
                     !.module_name = modules[i].name,
                     !.new_version = new_version,
                     !.orig = fs[modules[i].file_path]]

\* main, lines 190-209: the row of modules[i], and the choice of what follows.
Report ==
    /\ pc = "report"
    /\ latest_version' = LatestVersion(versions)
    /\ latest_matching' = LatestMatching(versions, modules[i].constraint)
    /\ current_version' = CurrentVersion(modules[i].constraint)
    /\ update_possible' =
          UpdatePossible(latest_version', latest_matching', current_version')
    /\ rows' = Append(rows,
          [flag |-> update_possible', name |-> modules[i].name,
           constraint |-> modules[i].constraint, current |-> current_version',
           latest_matching |-> latest_matching', latest |-> latest_version'])
    /\ answer' = ""
    /\ IF update_possible' /\ args.all
       THEN /\ pc' = "upd_begin"
            /\ upd' = BeginUpdate(NewVersion(latest_matching', latest_version'))
            /\ i' = i
       ELSE IF update_possible' /\ args.update
       THEN pc' = "prompt" /\ upd' = upd /\ i' = i
       ELSE Advance /\ upd' = upd
    /\ UNCHANGED << envVars, faults, fs, backups, now, run, token, modules, versions,
                    request, histVars, pureVars >>

\* main, lines 210-215: input(...).strip().lower() == 'y'
Prompt ==
    /\ pc = "prompt"
    /\ \E a \in {"y", "n"} :
          /\ answer' = a
          /\ IF a = "y"
             THEN /\ pc' = "upd_begin"
                  /\ upd' = BeginUpdate(NewVersion(latest_matching, latest_version))
                  /\ i' = i
             ELSE Advance /\ upd' = upd
    /\ UNCHANGED << envVars, faults, fs, backups, now, run, token, modules, localVars,
                    rows, request, histVars, pureVars >>

\* update_module_version, lines 135-137: the backup path is named after the
\* clock's reading, to the second, and the file is read.
UpdBegin ==
    /\ pc = "upd_begin"
    /\ \E t \in (IF now = 0 THEN {1} ELSE {now, now + 1}) :
          /\ now' = t
          /\ upd' = [upd EXCEPT
                       !.backup_path = [file |-> upd.file_path, ts |-> t],
                       !.content = fs[upd.file_path]]
    /\ pc' = "upd_backup_open"
    /\ UNCHANGED << envVars, faults, fs, backups, run, token, modules, i, localVars,
                    rows, request, answer, histVars, pureVars >>

\* line 138: open(backup_path, 'w') creates the file, or empties it.
UpdBackupOpen ==
    /\ pc = "upd_backup_open"
    /\ backups' = Put(backups, upd.backup_path,
                      [content |-> EmptyFile, written |-> FALSE])
    /\ pc' = "upd_backup_write"
    /\ UNCHANGED << envVars, faults, fs, now, run, token, modules, i, localVars, rows,
                    request, answer, upd, histVars, pureVars >>

\* The step with nothing written to the backup.
UpdBackupWriteNothing ==
    /\ pc = "upd_backup_write"
    /\ pc' = "upd_load"
    /\ UNCHANGED << envVars, faults, fs, backups, now, run, token, modules, i,
                    localVars, rows, request, answer, upd, histVars, pureVars >>

\* lines 139-140: the content read is written to the backup.
UpdBackupWrite ==
    /\ pc = "upd_backup_write"
    /\ backups' = Put(backups, upd.backup_path,
                      [content |-> upd.content, written |-> TRUE])
    /\ pc' = "upd_load"
    /\ UNCHANGED << envVars, faults, fs, now, run, token, modules, i, localVars, rows,
                    request, answer, upd, histVars, pureVars >>

\* lines 143-147: the file is parsed again and the module's version is set.
UpdLoad ==
    /\ pc = "upd_load"
    /\ fs[upd.file_path].parsable
    /\ upd' = [upd EXCEPT !.config =
                  SetVersion(fs[upd.file_path].blocks, upd.module_name,
                             upd.new_version)]
    /\ pc' = "upd_open"
    /\ UNCHANGED << envVars, faults, fs, backups, now, run, token, modules, i,
                    localVars, rows, request, answer, histVars, pureVars >>

\* line 148: open(file_path, 'w') empties the file.
UpdOpen ==
    /\ pc = "upd_open"
    /\ fs' = Put(fs, upd.file_path, EmptyFile)
    /\ upd' = [upd EXCEPT !.opened = TRUE]
    /\ pc' = "upd_dump"
    /\ UNCHANGED << envVars, faults, backups, now, run, token, modules, i, localVars,
                    rows, request, answer, histVars, pureVars >>

\* lines 149-150: the whole structure is written back.
UpdDump ==
    /\ pc = "upd_dump"
    /\ fs' = Put(fs, upd.file_path, Content(upd.config))
    /\ applied' =
          IF \E k \in 1..Len(upd.config) : upd.config[k].name = upd.module_name
          THEN applied \cup { [file |-> upd.file_path, name |-> upd.module_name,
                               value |-> upd.new_version, versions |-> versions] }
          ELSE applied
    /\ Advance
    /\ UNCHANGED << envVars, faults, backups, now, run, token, modules, localVars,
                    rows, request, answer, upd, prevApplied, updFailed,
                    prevClean, pureVars >>

\* lines 151-152: any exception of the procedure is printed, and main goes on.
UpdError ==
    /\ \/ \* an open, a read or a write raises OSError: the files stay as
          \* they are at that point
          /\ pc \in {"upd_begin", "upd_backup_open", "upd_backup_write",
                     "upd_open", "upd_dump"}
          /\ fs' = fs
          /\ Fault
       \/ \* hcl2.load raises on a file it cannot parse
          /\ pc = "upd_load"
          /\ ~fs[upd.file_path].parsable
          /\ fs' = fs
          /\ faults' = faults
       \/ \* hcl2.dump raises after a part of the text was written
          /\ pc = "upd_dump"
          /\ fs' = Put(fs, upd.file_path, Unparsable)
          /\ Fault
    /\ updFailed' = TRUE
    /\ Advance
    /\ UNCHANGED << envVars, backups, now, run, token, modules, localVars,
                    rows, request, answer, upd, applied, prevApplied,
                    prevClean, pureVars >>

\* The program is run again, with the same command line, over the tree as
\* the last run left it.
Rerun ==
    /\ pc = "done"
    /\ run < MaxRuns
    /\ run' = run + 1
    /\ pc' = "start"
    /\ token' = NoToken
    /\ modules' = << >>
    /\ i' = 0
    /\ versions' = << >>
    /\ latest_version' = EmptyStr
    /\ latest_matching' = EmptyStr
    /\ current_version' = EmptyStr
    /\ update_possible' = FALSE
    /\ rows' = << >>
    /\ request' = NoRequest
    /\ answer' = ""
    /\ prevApplied' = applied
    /\ applied' = {}
    /\ prevClean' = ~updFailed
    /\ updFailed' = FALSE
    /\ UNCHANGED << envVars, faults, fs, backups, now, upd, pureVars >>

Next ==
    \/ Startup
    \/ Scan
    \/ GetModuleVersions
    \/ Report
    \/ Prompt
    \/ UpdBegin
    \/ UpdBackupOpen
    \/ UpdBackupWrite
    \/ UpdLoad
    \/ UpdOpen
    \/ UpdDump
    \/ UpdError
    \/ Rerun

Spec == Init /\ [][Next]_vars

----------------------------------------------------------------------------
(* parse_module_source on every source string of up to MaxSegs segments *)

LocatorSegments ==
    { << "" >>, << "", "" >>, << "hashicorp" >>, << "aws" >>,
      << "example", "com" >>, PublicHost }

LocatorSources == UNION { [1..n -> LocatorSegments] : n \in 1..MaxSegs }

\* The driver is not running.
MainIdle ==
    /\ args = [all |-> FALSE, update |-> FALSE, use_token |-> FALSE]
    /\ path_ok = TRUE
    /\ cred_ok = TRUE
    /\ registry = {}
    /\ fs = << >>
    /\ pc = "idle"
    /\ MainAtStart

InitLocator ==
    /\ MainIdle
    /\ ResolverIdle
    /\ source \in LocatorSources
    /\ module_info = Unparsed

ParseModuleSource ==
    /\ module_info = Unparsed
    /\ source \in LocatorSources
    /\ module_info' = parse_module_source(source)
    /\ UNCHANGED << driverVars, resolverVars, source >>

SpecLocator == InitLocator /\ [][ParseModuleSource]_vars

----------------------------------------------------------------------------
(* find_latest_matching_version on every version list of up to MaxLen      *)
(* versions and every constraint of up to MaxClauses clauses              *)

ResolverVersions == (1..MaxMajor) \X (0..MaxMinor)

ResolverLists == UNION { [1..n -> ResolverVersions] : n \in 0..MaxLen }

\* The operators of a Terraform version constraint the lists are tried with.
ResolverOps == { OpNone, OpEq, OpNe, OpGe, OpLt, OpPess }

ResolverConstraints ==
    UNION { [1..n -> [op : ResolverOps, ver : ResolverVersions]] :
              n \in 0..MaxClauses }

InitResolver ==
    /\ MainIdle
    /\ LocatorIdle
    /\ r_versions \in ResolverLists
    /\ r_constraint \in ResolverConstraints
    /\ r_result = Unresolved

FindLatestMatchingVersion ==
    /\ ~r_result.done
    /\ r_versions \in ResolverLists
    /\ r_result' = [done |-> TRUE,
                    value |-> find_latest_matching_version(r_versions, r_constraint)]
    /\ UNCHANGED << driverVars, locatorVars, r_versions, r_constraint >>

SpecResolver == InitResolver /\ [][FindLatestMatchingVersion]_vars

----------------------------------------------------------------------------
(* The claims *)

\* The row of modules[i] is rendered: versions, request and the row are its.
Reported == i >= 1 /\ Len(rows) = i

FlagRule(row) ==
    /\ row.latest # EmptyStr
    /\ \/ row.current = EmptyStr
       \/ /\ row.latest # row.current
          /\ (row.latest_matching = EmptyStr \/ row.latest_matching # row.current)

\* C1: every row's update flag is set exactly when latest is non-empty and
\* (current is empty, or latest differs from current and latest matching is
\* empty or differs from current); latest is the first entry of the fetched
\* list, and with an empty list latest and latest matching are blank and the
\* flag is unset.
C1_UpdateFlag ==
    /\ \A k \in 1..Len(rows) : rows[k].flag = FlagRule(rows[k])
    /\ Reported =>
          /\ rows[i].latest = (IF versions = << >> THEN EmptyStr ELSE Str(versions[1]))
          /\ versions = << >> =>
                /\ rows[i].latest = EmptyStr
                /\ rows[i].latest_matching = EmptyStr
                /\ ~rows[i].flag

\* One row of an empty version list, and one row flagged although current
\* and latest matching are both non-empty.
C1_Witness ==
    \E j, k \in 1..Len(rows) :
        /\ rows[j].latest = EmptyStr /\ ~rows[j].flag
        /\ rows[k].flag /\ rows[k].current # EmptyStr
        /\ rows[k].latest_matching # EmptyStr

\* The clauses of a Terraform version constraint.
Satisfies(cl, v) ==
    CASE cl.op = OpNone -> v = cl.ver
      [] cl.op = OpEq -> v = cl.ver
      [] cl.op = OpNe -> v # cl.ver
      [] cl.op = OpGe -> VLeq(cl.ver, v)
      [] cl.op = OpLt -> VLess(v, cl.ver)
      [] cl.op = OpPess -> v[1] = cl.ver[1] /\ VLeq(cl.ver, v)
      [] OTHER -> FALSE

SatisfiesAll(c, v) == \A k \in 1..Len(c) : Satisfies(c[k], v)

\* C2: for a non-empty constraint the result is empty or the greatest of the
\* list's elements that satisfy every clause, and it is empty only when no
\* element satisfies the constraint.
C2_LatestMatching ==
    (r_result.done /\ r_constraint # EmptyStr) =>
        LET sat == { k \in 1..Len(r_versions) :
                       SatisfiesAll(r_constraint, r_versions[k]) }
        IN /\ \/ r_result.value = EmptyStr
              \/ \E k \in sat :
                    /\ r_result.value = Str(r_versions[k])
                    /\ \A j \in sat : VLeq(r_versions[j], r_versions[k])
           /\ r_result.value = EmptyStr => sat = {}

\* C3: past the startup checks no run ends in a traceback, and a run that
\* ends has rendered the row of every scanned declaration, in scan order.
C3_RunNeverAborts ==
    /\ pc # "traceback"
    /\ pc = "done" =>
          /\ Len(rows) = Len(modules)
          /\ \A k \in 1..Len(rows) : rows[k].name = modules[k].name

\* C4: once an update has begun, if the original has been opened for writing
\* or differs from what it was when the update began, the update's backup
\* exists and holds that content in full; and while the backup does not exist
\* the original is untouched.
C4_BackupBeforeRewrite ==
    upd.file_path # "" =>
        /\ (upd.opened \/ fs[upd.file_path] # upd.orig) =>
              /\ upd.backup_path \in DOMAIN backups
              /\ backups[upd.backup_path].written
              /\ backups[upd.backup_path].content = upd.orig
        /\ upd.backup_path \notin DOMAIN backups =>
              ~upd.opened /\ fs[upd.file_path] = upd.orig

\* The original is opened for writing and emptied, the backup holds what it
\* was.
C4_Witness ==
    /\ pc = "upd_dump"
    /\ upd.opened
    /\ fs[upd.file_path] # upd.orig
    /\ backups[upd.backup_path].content = upd.orig

\* C5: a backup, once written, keeps its content.
C5_BackupNeverOverwritten ==
    [][\A p \in DOMAIN backups :
          backups[p].written => backups'[p] = backups[p]]_vars

\* C6: the request for a private reference goes to the reference's own host
\* and modules path, with the token as bearer when there is one; the request
\* for a public reference goes to the public endpoint without a header.
C6_PrivateAtOwnHost ==
    pc = "report" =>
        LET info == modules[i].module_info
            coordinates == << info.namespace, info.module, info.provider >>
        IN /\ request.module = coordinates
           /\ info.registry = "private" =>
                 /\ request.host = info.hostname
                 /\ request.base = get_modules_path(info.hostname)
                 /\ token # NoToken => request.auth = token
           /\ info.registry = "public" =>
                 /\ request.host = PublicHost
                 /\ request.base = << PublicModulesPath >>
                 /\ request.auth = NoToken

\* C7: a private reference has a non-empty host other than the public
\* registry's, a public reference has the public registry's host; a source is
\* private with four segments or more and a dot in the first, otherwise
\* public with three or more, otherwise without a reference.
C7_HostInvariant ==
    module_info # Unparsed =>
        /\ module_info.registry = "private" =>
              /\ module_info.hostname # << "" >>
              /\ module_info.hostname # PublicHost
        /\ module_info.registry = "public" => module_info.hostname = PublicHost
        /\ module_info.registry =
              (IF Len(source) >= 4 /\ Len(source[1]) >= 2 THEN "private"
               ELSE IF Len(source) >= 3 THEN "public" ELSE "none")

ExpectedVersion(row) ==
    IF row.latest_matching # EmptyStr THEN row.latest_matching ELSE row.latest

\* C8: a step creates or changes a file only for the declaration whose row
\* is rendered with the flag set, only in batch mode (with no prompt) or in
\* interactive mode after the answer 'y', only that declaration's file or a
\* backup of it, and the version it writes is latest matching if there is
\* one and latest otherwise.
C8_WritesOnlyWhenPermitted ==
    [][(fs' # fs \/ backups' # backups) =>
          /\ Reported
          /\ rows[i].flag
          /\ rows[i].name = modules[i].name
          /\ IF args.all THEN answer = "" ELSE args.update /\ answer = "y"
          /\ \A f \in DOMAIN fs : fs'[f] # fs[f] => f = modules[i].file_path
          /\ \A p \in DOMAIN backups' :
                (p \notin DOMAIN backups \/ backups'[p] # backups[p])
                    => p.file = modules[i].file_path
          /\ fs' # fs =>
                LET blocks == fs'[modules[i].file_path].blocks
                IN \A k \in 1..Len(blocks) :
                      blocks[k].name = modules[i].name
                          => blocks[k].version = ExpectedVersion(rows[i])]_vars

\* An interactive run has ended with the last declaration's file rewritten
\* after the answer 'y'.
C8_Witness ==
    /\ pc = "done"
    /\ ~args.all /\ args.update /\ answer = "y"
    /\ Reported
    /\ fs[modules[i].file_path] # upd.orig
    /\ \E k \in 1..Len(fs[modules[i].file_path].blocks) :
          LET b == fs[modules[i].file_path].blocks[k]
          IN b.name = modules[i].name /\ b.version = ExpectedVersion(rows[i])

\* C9: in the run after an update was applied to a declaration, its row,
\* made from the same version list, shows the written value as the current
\* version, and has no flag when that value is the latest version.
C9_RoundTrip ==
    (run >= 2 /\ Reported) =>
        \A a \in prevApplied :
            (/\ a.file = modules[i].file_path
             /\ a.name = modules[i].name
             /\ a.versions = versions)
            => /\ rows[i].current = a.value
               /\ (a.value = rows[i].latest => ~rows[i].flag)

\* The second run renders the row of a declaration the first run moved to
\* the latest version.
C9_Witness ==
    /\ run = 2
    /\ Reported
    /\ \E a \in prevApplied :
          /\ a.file = modules[i].file_path
          /\ a.name = modules[i].name
          /\ a.versions = versions
          /\ a.value = rows[i].latest
          /\ rows[i].current = a.value
          /\ ~rows[i].flag

\* C10: after a batch run in which every update offered was applied, with no
\* failure of the network or the disk, the next run flags no declaration and
\* starts no update.
C10_BatchConverges ==
    (run >= 2 /\ args.all /\ prevClean /\ faults = 0) =>
        /\ \A k \in 1..Len(rows) : ~rows[k].flag
        /\ applied = {}

=============================================================================
